---- MODULE Spec2Model ----
(***************************************************************************)
(* Column state of the data grid: the useColumns hook.  The model follows  *)
(* the hook's source: hydrateColumns, toLookup, filterVisible, toMeta,     *)
(* resetState, getUpdatedColumnState and the handlers of useColumns.       *)
(*                                                                         *)
(* JavaScript objects are records that carry their identity in the field   *)
(* oid; arrays and lookup objects that the code mutates in place carry     *)
(* their identity in the snapshot fields allId and lookupId, so a write    *)
(* through one reference is seen through every other reference.            *)
(***************************************************************************)
EXTENDS Integers, Sequences, FiniteSets, TLC

\* ---------------------------------------------------------------- bounds
\* MaxCols, MaxSort, MaxPatch: the longest column list, sort model and patch list;
\* MaxOps: how many handlers (column changes, patches, post-sort notifications,
\* the cleanup) run after the first render; MaxSortOps: the same in the runs of sort
\* notifications and column changes only
MaxCols == 2
MaxSort == 2
MaxPatch == 2
MaxOps == 2
MaxSortOps == 3

\* ------------------------------------------------------------- JS values
Null == "<null>"
Undefined == "<undefined>"
\* an absent (undefined) sortIndex; a present one is <<n>>
NoIndex == << >>

COLUMNS_UPDATED == "columnsUpdated"
POST_SORT == "postSort"

\* x != null, x == null of JavaScript (null and undefined are both nullish)
IsNullish(x) == x = Null \/ x = Undefined

\* property-key coercion of obj[key]: null becomes the string "null"
ToKey(field) == IF field = Null THEN "null" ELSE field

\* { ...a, ...b }: the own fields of both, b's winning
Spread(a, b) == [k \in (DOMAIN a) \cup (DOMAIN b) |-> IF k \in DOMAIN b THEN b[k] ELSE a[k]]

\* a freshly allocated object with the given fields
NewObject(oid, fields) == Spread(fields, [oid |-> oid])

\* ---------------------------------------------------- models not in src/
\* the reserved field identifier of the checkbox-selection column
CheckboxField == "__check__"

\* the fixed checkbox-selection column definition: one shared object, oid 0.
\* hydrateColumns writes to a column only when it carries a sort direction or a sort
\* model names its field; this one carries none and no sort model below names the
\* reserved field, so the shared object is never written
checkboxSelectionColDef ==
    [oid |-> 0, field |-> CheckboxField, width |-> 80, hide |-> FALSE,
     sortDirection |-> Undefined, sortIndex |-> NoIndex]

\* getColDef(type): the type-indexed default definition
getColDef ==
    [width |-> 100, hide |-> FALSE, sortDirection |-> Undefined, sortIndex |-> NoIndex]

\* ---------------------------------------------------------------- inputs
\* column definitions a caller may pass (partial: getColDef fills the rest)
ColA == [field |-> "a"]
ColB == [field |-> "b", width |-> 50, hide |-> TRUE, sortDirection |-> "asc"]
ColC == [field |-> "c", width |-> 80, sortDirection |-> "desc", sortIndex |-> <<1>>]
ColNoField == [field |-> Null, width |-> 50]
ColReserved == [field |-> CheckboxField, width |-> 50]

\* the column lists a caller passes, up to MaxCols columns
ColumnLists ==
    { cols \in { << >>, <<ColA, ColB>>, <<ColB, ColC>>, <<ColC, ColA>>,
                 <<ColNoField, ColA>>, <<ColReserved>>, <<ColA, ColA>>,
                 <<ColA, ColB, ColC>>, <<ColB, ColNoField, ColA>> } : Len(cols) <= MaxCols }

SeqsUpTo(S, n) == UNION { [1..k -> S] : k \in 0..n }

\* the sort models a host applies: up to MaxSort entries, one entry per column at most
SortEntries ==
    { [colId |-> "a", sort |-> "asc"], [colId |-> "a", sort |-> "desc"],
      [colId |-> "b", sort |-> "desc"] }
SortModels ==
    { m \in SeqsUpTo(SortEntries, MaxSort) :
        \A i, j \in 1..Len(m) : m[i].colId = m[j].colId => i = j }

\* the patches a host passes to updateColumn, and the lists of up to MaxPatch patches
\* it passes to updateColumns; no column is ever named "zz"
ColumnPatches ==
    { [field |-> "a", hide |-> TRUE], [field |-> "b", hide |-> FALSE, width |-> 80],
      [field |-> "zz", width |-> 80] }
PatchLists == SeqsUpTo(ColumnPatches, MaxPatch)

\* ----------------------------------------------------------------- state
VARIABLES
    columns,            \* the columns prop
    options,            \* the options prop: [checkboxSelection]
    apiRef,             \* the host handle: [current, getSortModel, sortModel, listening, colApi]
    stateRef,           \* stateRef.current: the committed snapshot
    internalColumns,    \* the snapshot the last render returned
    sortedColFieldsRef, \* sortedColFieldsRef.current
    prevState,          \* the snapshot committed before the last handler, as it is now
    last,               \* what the last handler did: [op, effects, emitted, updates]
    rafPending,         \* a coalesced re-render is requested
    mounted,            \* "rendered" (effects not yet run), "mounted", "unmounted"
    ops                 \* handlers run so far

vars == <<columns, options, apiRef, stateRef, internalColumns, sortedColFieldsRef,
          prevState, last, rafPending, mounted, ops>>

\* -------------------------------------------------------- object identity
RECURSIVE SeqOids(_)
SeqOids(s) == IF s = << >> THEN {} ELSE {Head(s).oid} \cup SeqOids(Tail(s))

SnapshotOids(st) ==
    SeqOids(st.all) \cup SeqOids(st.visible) \cup { st.lookup[k].oid : k \in DOMAIN st.lookup }

\* the smallest identity no live object uses
FreshOid(used) == CHOOSE n \in 1..(Cardinality(used) + 1) :
                      n \notin used /\ \A m \in 1..(n - 1) : m \in used

FreshId(used) == CHOOSE n \in 0..Cardinality(used) :
                     n \notin used /\ \A m \in 0..(n - 1) : m \in used

\* ------------------------------------------------------- pure functions
\* columns.map(c => ({ ...getColDef(c.type), ...c })): one new object per column
RECURSIVE MapCols(_, _)
MapCols(cols, used) ==
    IF cols = << >> THEN << >>
    ELSE LET o == FreshOid(used)
         IN  <<NewObject(o, Spread(getColDef, Head(cols)))>> \o MapCols(Tail(cols), used \cup {o})

\* Array.prototype.findIndex on c.field === field, as a 1-based index; 0 is JavaScript's -1
findIndex(cols, field) ==
    IF \E i \in 1..Len(cols) : cols[i].field = field
    THEN CHOOSE i \in 1..Len(cols) :
             cols[i].field = field /\ \A j \in 1..(i - 1) : cols[j].field # field
    ELSE 0

\* lines 25-33: a column with a sort direction and no sortIndex gets its 1-based rank
\* among the columns with a sort direction, only when the host handle is set
AssignSortIndex(mappedCols, apiCurrent) ==
    LET sorted(i) == ~IsNullish(mappedCols[i].sortDirection)
        rank(i) == Cardinality({ j \in 1..i : sorted(j) })
    IN  IF apiCurrent /\ \E i \in 1..Len(mappedCols) : sorted(i)
        THEN [ i \in 1..Len(mappedCols) |->
                 IF sorted(i) /\ mappedCols[i].sortIndex = NoIndex
                 THEN [mappedCols[i] EXCEPT !.sortIndex = <<rank(i)>>]
                 ELSE mappedCols[i] ]
        ELSE mappedCols

\* mutation of ApplySortModel: the priority is set whatever the length of the sort model
RECURSIVE ApplySortModel_alwaysIndexed(_, _, _)
ApplySortModel_alwaysIndexed(mappedCols, sortedCols, idx) ==
    IF idx > Len(sortedCols) THEN mappedCols
    ELSE LET c == sortedCols[idx]
             at == findIndex(mappedCols, c.colId)
             next == IF at = 0 THEN mappedCols
                     ELSE [mappedCols EXCEPT
                             ![at].sortDirection = c.sort, ![at].sortIndex = <<idx>>]
         IN  ApplySortModel_alwaysIndexed(next, sortedCols, idx + 1)

\* lines 36-43: the forEach over the host's sort model, from entry idx (1-based) on
RECURSIVE ApplySortModel(_, _, _)
ApplySortModel(mappedCols, sortedCols, idx) ==
    IF idx > Len(sortedCols) THEN mappedCols
    ELSE LET c == sortedCols[idx]
             at == findIndex(mappedCols, c.colId)
             next == IF at = 0 THEN mappedCols
                     ELSE [mappedCols EXCEPT
                             ![at].sortDirection = c.sort,
                             ![at].sortIndex = IF Len(sortedCols) > 1 THEN <<idx>> ELSE NoIndex]
         IN  ApplySortModel(next, sortedCols, idx + 1)

\* mutation of hydrateColumns: the checkbox column is prepended whatever the option says
hydrateColumns_alwaysCheckbox(cols, opts, api, used) ==
    LET mappedCols == <<checkboxSelectionColDef>> \o MapCols(cols, used)
        indexed == AssignSortIndex(mappedCols, api.current)
    IN  IF api.current /\ api.getSortModel
        THEN ApplySortModel(indexed, api.sortModel, 1)
        ELSE indexed

\* hydrateColumns(columns, options, logger, apiRef); used: the identities of live objects
hydrateColumns(cols, opts, api, used) ==
    LET mapped == MapCols(cols, used)
        mappedCols == IF opts.checkboxSelection THEN <<checkboxSelectionColDef>> \o mapped
                      ELSE mapped
        indexed == AssignSortIndex(mappedCols, api.current)
    IN  IF api.current /\ api.getSortModel
        THEN ApplySortModel(indexed, api.sortModel, 1)
        ELSE indexed

\* toLookup: lookup[col.field] = col over all columns in order, the last write winning
toLookup(allColumns) ==
    LET keys == { ToKey(allColumns[i].field) : i \in 1..Len(allColumns) }
        lastAt(k) == CHOOSE i \in 1..Len(allColumns) :
                         /\ ToKey(allColumns[i].field) = k
                         /\ \A j \in (i + 1)..Len(allColumns) : ToKey(allColumns[j].field) # k
    IN  [ k \in keys |-> allColumns[lastAt(k)] ]

\* mutation of IsVisible: the test of the field identifier is forgotten
IsVisible_hideOnly(c) == ~c.hide

\* filterVisible: c.field != null && !c.hide
IsVisible(c) == ~IsNullish(c.field) /\ ~c.hide

filterVisible(allColumns) == SelectSeq(allColumns, IsVisible)

\* the reduce of toMeta: push the running total, then add the column's width
RECURSIVE toMetaReduce(_, _, _)
toMetaReduce(visibleColumns, totalW, positions) ==
    IF visibleColumns = << >> THEN [totalWidth |-> totalW, positions |-> positions]
    ELSE toMetaReduce(Tail(visibleColumns), totalW + Head(visibleColumns).width,
                      Append(positions, totalW))

toMeta(visibleColumns) == toMetaReduce(visibleColumns, 0, << >>)

\* resetState: a whole new snapshot; the all array and the lookup object are new
resetState(cols, opts, api, used, usedAllIds, usedLookupIds) ==
    LET all == hydrateColumns(cols, opts, api, used)
        visible == filterVisible(all)
        meta == toMeta(visible)
        lookup == toLookup(all)
    IN  [ all |-> all, visible |-> visible, meta |-> meta, lookup |-> lookup,
          hasColumns |-> Len(all) > 0, hasVisibleColumns |-> Len(visible) > 0,
          allId |-> FreshId(usedAllIds), lookupId |-> FreshId(usedLookupIds) ]

\* mutation of ApplyUpdates: the merged column is not stored in the lookup
RECURSIVE ApplyUpdates_lookupKept(_, _, _, _)
ApplyUpdates_lookupKept(all, lookup, columnUpdates, used) ==
    IF columnUpdates = << >> THEN [all |-> all, lookup |-> lookup]
    ELSE LET newColumn == Head(columnUpdates)
             index == findIndex(all, newColumn.field)
             old == IF index = 0 THEN << >> ELSE all[index]
             oid == FreshOid(used)
             columnUpdated == NewObject(oid, Spread(old, newColumn))
             newAll == IF index = 0 THEN all ELSE [all EXCEPT ![index] = columnUpdated]
         IN  ApplyUpdates_lookupKept(newAll, lookup, Tail(columnUpdates), used \cup {oid})

\* mutation of ApplyUpdates: the spread is written the other way round, { ...newColumn,
\* ...old }, so the fields of the existing entry win over the patch
RECURSIVE ApplyUpdates_oldWins(_, _, _, _)
ApplyUpdates_oldWins(all, lookup, columnUpdates, used) ==
    IF columnUpdates = << >> THEN [all |-> all, lookup |-> lookup]
    ELSE LET newColumn == Head(columnUpdates)
             index == findIndex(all, newColumn.field)
             old == IF index = 0 THEN << >> ELSE all[index]
             oid == FreshOid(used)
             columnUpdated == NewObject(oid, Spread(newColumn, old))
             newAll == IF index = 0 THEN all ELSE [all EXCEPT ![index] = columnUpdated]
             newLookup == (ToKey(newColumn.field) :> columnUpdated) @@ lookup
         IN  ApplyUpdates_oldWins(newAll, newLookup, Tail(columnUpdates), used \cup {oid})

\* mutation of ApplyUpdates: an update of an unknown field is added to all as a new column
RECURSIVE ApplyUpdates_unknownAppended(_, _, _, _)
ApplyUpdates_unknownAppended(all, lookup, columnUpdates, used) ==
    IF columnUpdates = << >> THEN [all |-> all, lookup |-> lookup]
    ELSE LET newColumn == Head(columnUpdates)
             index == findIndex(all, newColumn.field)
             old == IF index = 0 THEN << >> ELSE all[index]
             oid == FreshOid(used)
             columnUpdated == NewObject(oid, Spread(old, newColumn))
             newAll == IF index = 0 THEN Append(all, Spread(getColDef, columnUpdated))
                       ELSE [all EXCEPT ![index] = columnUpdated]
             newLookup == (ToKey(newColumn.field) :> columnUpdated) @@ lookup
         IN  ApplyUpdates_unknownAppended(newAll, newLookup, Tail(columnUpdates), used \cup {oid})

\* the forEach of getUpdatedColumnState over columnUpdates: each update is merged onto
\* the entry found by field (onto nothing when the field is unknown: index -1 names no
\* element, and the copy [...all] drops the write), and stored in the lookup
RECURSIVE ApplyUpdates(_, _, _, _)
ApplyUpdates(all, lookup, columnUpdates, used) ==
    IF columnUpdates = << >> THEN [all |-> all, lookup |-> lookup]
    ELSE LET newColumn == Head(columnUpdates)
             index == findIndex(all, newColumn.field)
             old == IF index = 0 THEN << >> ELSE all[index]
             oid == FreshOid(used)
             columnUpdated == NewObject(oid, Spread(old, newColumn))
             newAll == IF index = 0 THEN all ELSE [all EXCEPT ![index] = columnUpdated]
             newLookup == (ToKey(newColumn.field) :> columnUpdated) @@ lookup
         IN  ApplyUpdates(newAll, newLookup, Tail(columnUpdates), used \cup {oid})

\* mutation of getUpdatedColumnState: the metadata is not derived again
getUpdatedColumnState_staleMeta(state, columnUpdates, used, usedAllIds, usedLookupIds) ==
    LET newState == ApplyUpdates(state.all, state.lookup, columnUpdates, used)
        visible == filterVisible(newState.all)
    IN  [ all |-> newState.all, visible |-> visible, meta |-> state.meta,
          lookup |-> newState.lookup,
          hasColumns |-> Len(newState.all) > 0, hasVisibleColumns |-> Len(visible) > 0,
          allId |-> IF columnUpdates = << >> THEN state.allId ELSE FreshId(usedAllIds),
          lookupId |-> IF columnUpdates = << >> THEN state.lookupId
                       ELSE FreshId(usedLookupIds) ]

\* getUpdatedColumnState: the snapshot it returns.  With no update the spread
\* { ...state } keeps the all array and the lookup object of state
getUpdatedColumnState(state, columnUpdates, used, usedAllIds, usedLookupIds) ==
    LET newState == ApplyUpdates(state.all, state.lookup, columnUpdates, used)
        visible == filterVisible(newState.all)
        meta == toMeta(visible)
    IN  [ all |-> newState.all, visible |-> visible, meta |-> meta,
          lookup |-> newState.lookup,
          hasColumns |-> Len(newState.all) > 0, hasVisibleColumns |-> Len(visible) > 0,
          allId |-> IF columnUpdates = << >> THEN state.allId ELSE FreshId(usedAllIds),
          lookupId |-> IF columnUpdates = << >> THEN state.lookupId
                       ELSE FreshId(usedLookupIds) ]

\* lines 93 and 96 write into newState.all and newState.lookup before they are copied:
\* in the first iteration these are still the array and the object of state itself
WrittenInPlace(state, columnUpdates, used) ==
    IF columnUpdates = << >> THEN [all |-> state.all, lookup |-> state.lookup]
    ELSE ApplyUpdates(state.all, state.lookup, <<Head(columnUpdates)>>, used)

\* a snapshot as seen after such writes: it shows them where it holds the same array
\* or the same lookup object as state
SeenAfterWrites(snapshot, state, written) ==
    [ snapshot EXCEPT
        !.all = IF snapshot.allId = state.allId THEN written.all ELSE @,
        !.lookup = IF snapshot.lookupId = state.lookupId THEN written.lookup ELSE @ ]

LiveOids == SnapshotOids(stateRef) \cup SnapshotOids(internalColumns)
LiveAllIds == {stateRef.allId, internalColumns.allId}
LiveLookupIds == {stateRef.lookupId, internalColumns.lookupId}

\* ------------------------------------------------------------ API surface
getColumnFromField(field) ==
    IF ToKey(field) \in DOMAIN stateRef.lookup THEN stateRef.lookup[ToKey(field)] ELSE Undefined
getAllColumns == stateRef.all
getColumnsMeta == stateRef.meta
\* mutation of getColumnIndex: the search runs over all instead of visible
getColumnIndex_searchesAll(field) == findIndex(stateRef.all, field)

\* 1-based; 0 is JavaScript's -1
getColumnIndex(field) == findIndex(stateRef.visible, field)
getColumnPosition(field) ==
    LET index == getColumnIndex(field)
    IN  IF index \in 1..Len(stateRef.meta.positions) THEN stateRef.meta.positions[index]
        ELSE Undefined
getVisibleColumns == stateRef.visible

\* --------------------------------------------------------------- handlers
\* mutation of updateStateEffects: the emit flag is ignored
updateStateEffects_flagIgnored(emit) ==
    <<"setInternalColumns">> \o (IF apiRef.current THEN <<COLUMNS_UPDATED>> ELSE << >>)

\* updateState(newState, emit): effects it performs, in order
updateStateEffects(emit) ==
    <<"setInternalColumns">> \o (IF apiRef.current /\ emit THEN <<COLUMNS_UPDATED>> ELSE << >>)

Init ==
    /\ columns \in ColumnLists
    /\ options \in [checkboxSelection : BOOLEAN]
    /\ apiRef \in { h \in [current : BOOLEAN, getSortModel : BOOLEAN, sortModel : {<< >>},
                          listening : {FALSE}, colApi : {FALSE}] :
                        h.getSortModel => h.current }
    /\ stateRef = resetState(columns, options, apiRef, {}, {}, {})
    /\ internalColumns = stateRef
    /\ sortedColFieldsRef = << >>
    /\ prevState = stateRef
    /\ last = [op |-> "render", effects |-> << >>, emitted |-> << >>, updates |-> << >>,
               sortModel |-> << >>]
    /\ rafPending = FALSE
    /\ mounted = "rendered"
    /\ ops = 0

\* the host installs its API object on the handle, with or without a sort-model accessor
HostInitApi(withGetSortModel) ==
    /\ ~apiRef.current
    /\ mounted # "unmounted"
    /\ apiRef' = [apiRef EXCEPT !.current = TRUE, !.getSortModel = withGetSortModel]
    /\ UNCHANGED <<columns, options, stateRef, internalColumns, sortedColFieldsRef,
                   prevState, last, rafPending, mounted, ops>>

\* the effect of lines 129-133: resetState and updateState(newState)
ResetEffect(op, cols, opts) ==
    LET newState == resetState(cols, opts, apiRef, SnapshotOids(stateRef),
                               {stateRef.allId}, {stateRef.lookupId})
    IN  /\ stateRef' = newState
        /\ internalColumns' = stateRef
        /\ prevState' = stateRef
        /\ last' = [op |-> op, effects |-> updateStateEffects(TRUE),
                    emitted |-> IF apiRef.current THEN newState.all ELSE << >>,
                    updates |-> << >>, sortModel |-> << >>]

\* after the first render both effects run: the reset effect, then the effect of
\* lines 178-200 that attaches the column API and subscribes onSortedColumns
Mount ==
    /\ mounted = "rendered"
    /\ ResetEffect("mount", columns, options)
    /\ apiRef' = IF apiRef.current THEN [apiRef EXCEPT !.colApi = TRUE, !.listening = TRUE]
                 ELSE apiRef
    /\ mounted' = "mounted"
    /\ UNCHANGED <<columns, options, sortedColFieldsRef, rafPending, ops>>

\* the columns or options prop changes: a render, then the reset effect
ColumnsChanged(cols, opts) ==
    /\ mounted = "mounted"
    /\ columns' = cols
    /\ options' = opts
    /\ ResetEffect("reset", cols, opts)
    /\ ops' = ops + 1
    /\ UNCHANGED <<apiRef, sortedColFieldsRef, rafPending, mounted>>

\* mutation of Patch: the mutators read the snapshot of the last render, not stateRef.current
Patch_fromRenderedState(op, columnUpdates, effects, sortModel) ==
    LET newState == getUpdatedColumnState(internalColumns, columnUpdates, LiveOids,
                                          LiveAllIds, LiveLookupIds)
        written == WrittenInPlace(internalColumns, columnUpdates, LiveOids)
    IN  /\ stateRef' = newState
        /\ internalColumns' = SeenAfterWrites(internalColumns, internalColumns, written)
        /\ prevState' = SeenAfterWrites(stateRef, internalColumns, written)
        /\ last' = [op |-> op, effects |-> updateStateEffects(FALSE) \o effects,
                    emitted |-> << >>, updates |-> columnUpdates, sortModel |-> sortModel]

\* updateColumn and updateColumns, lines 145-153: getUpdatedColumnState on
\* stateRef.current, then updateState(newState, false)
Patch(op, columnUpdates, effects, sortModel) ==
    LET newState == getUpdatedColumnState(stateRef, columnUpdates, LiveOids,
                                          LiveAllIds, LiveLookupIds)
        written == WrittenInPlace(stateRef, columnUpdates, LiveOids)
    IN  /\ stateRef' = newState
        /\ internalColumns' = SeenAfterWrites(internalColumns, stateRef, written)
        /\ prevState' = SeenAfterWrites(stateRef, stateRef, written)
        /\ last' = [op |-> op, effects |-> updateStateEffects(FALSE) \o effects,
                    emitted |-> << >>, updates |-> columnUpdates, sortModel |-> sortModel]

updateColumn(col) ==
    /\ mounted = "mounted"
    /\ apiRef.colApi
    /\ Patch("updateColumn", <<col>>, << >>, << >>)
    /\ ops' = ops + 1
    /\ UNCHANGED <<columns, options, apiRef, sortedColFieldsRef, rafPending, mounted>>

updateColumns(cols) ==
    /\ mounted = "mounted"
    /\ apiRef.colApi
    /\ Patch("updateColumns", cols, << >>, << >>)
    /\ ops' = ops + 1
    /\ UNCHANGED <<columns, options, apiRef, sortedColFieldsRef, rafPending, mounted>>

\* mutation of updatedCols: the set-patches come before the clear-patches
updatedCols_setBeforeClear(sortedColFields, sortModel) ==
    [ i \in 1..Len(sortModel) |->
        [field |-> sortModel[i].colId, sortDirection |-> sortModel[i].sort,
         sortIndex |-> IF Len(sortModel) > 1 THEN <<i>> ELSE NoIndex] ]
    \o
    [ i \in 1..Len(sortedColFields) |->
        [field |-> sortedColFields[i], sortDirection |-> Null, sortIndex |-> NoIndex] ]

\* the patches onSortedColumns synthesizes (lines 157-169): a clear-patch for every field
\* of sortedColFieldsRef.current, then a set-patch for every entry of the sort model
updatedCols(sortedColFields, sortModel) ==
    [ i \in 1..Len(sortedColFields) |->
        [field |-> sortedColFields[i], sortDirection |-> Null, sortIndex |-> NoIndex] ]
    \o
    [ i \in 1..Len(sortModel) |->
        [field |-> sortModel[i].colId, sortDirection |-> sortModel[i].sort,
         sortIndex |-> IF Len(sortModel) > 1 THEN <<i>> ELSE NoIndex] ]

\* mutation of onSortedColumns: rafUpdate is called only when there is something to commit
onSortedColumns_rafOnlyOnCommit(sortModel) ==
    LET cols == updatedCols(sortedColFieldsRef, sortModel)
    IN  /\ apiRef.current
        /\ apiRef.listening
        /\ sortedColFieldsRef' = [ i \in 1..Len(sortModel) |-> sortModel[i].colId ]
        /\ IF Len(cols) > 0
           THEN /\ Patch(POST_SORT, cols, <<"rafUpdate">>, sortModel)
                /\ rafPending' = TRUE
           ELSE /\ last' = [op |-> POST_SORT, effects |-> << >>, emitted |-> << >>,
                            updates |-> << >>, sortModel |-> sortModel]
                /\ prevState' = stateRef
                /\ UNCHANGED <<stateRef, internalColumns, rafPending>>
        /\ apiRef' = [apiRef EXCEPT !.sortModel = IF apiRef.getSortModel THEN sortModel ELSE @]
        /\ ops' = ops + 1
        /\ UNCHANGED <<columns, options, mounted>>

\* the host sets its sort model and emits POST_SORT; onSortedColumns is subscribed
onSortedColumns(sortModel) ==
    LET cols == updatedCols(sortedColFieldsRef, sortModel)
    IN  /\ apiRef.current
        /\ apiRef.listening
        /\ sortedColFieldsRef' = [ i \in 1..Len(sortModel) |-> sortModel[i].colId ]
        /\ IF Len(cols) > 0
           THEN Patch(POST_SORT, cols, <<"rafUpdate">>, sortModel)
           ELSE /\ last' = [op |-> POST_SORT, effects |-> <<"rafUpdate">>, emitted |-> << >>,
                            updates |-> << >>, sortModel |-> sortModel]
                /\ prevState' = stateRef
                /\ UNCHANGED <<stateRef, internalColumns>>
        /\ rafPending' = TRUE
        /\ apiRef' = [apiRef EXCEPT !.sortModel = IF apiRef.getSortModel THEN sortModel ELSE @]
        /\ ops' = ops + 1
        /\ UNCHANGED <<columns, options, mounted>>

\* the host sets its sort model and emits POST_SORT with no handler subscribed
\* (before the attachment effect has run, or after its cleanup)
PostSortUnheard(sortModel) ==
    /\ apiRef.current
    /\ ~apiRef.listening
    /\ apiRef' = [apiRef EXCEPT !.sortModel = IF apiRef.getSortModel THEN sortModel ELSE @]
    /\ last' = [op |-> "unheard", effects |-> << >>, emitted |-> << >>, updates |-> << >>,
                sortModel |-> sortModel]
    /\ ops' = ops + 1
    /\ UNCHANGED <<columns, options, stateRef, internalColumns, sortedColFieldsRef,
                   prevState, rafPending, mounted>>

\* React renders again: the hook returns the state last set
Render ==
    /\ mounted = "mounted"
    /\ internalColumns # stateRef
    /\ internalColumns' = stateRef
    /\ UNCHANGED <<columns, options, apiRef, stateRef, sortedColFieldsRef, prevState,
                   last, rafPending, mounted, ops>>

\* the animation frame of rafUpdate: forceUpdate, hence a render
RafFrame ==
    /\ mounted = "mounted"
    /\ rafPending
    /\ rafPending' = FALSE
    /\ internalColumns' = stateRef
    /\ UNCHANGED <<columns, options, apiRef, stateRef, sortedColFieldsRef, prevState,
                   last, mounted, ops>>

\* mutation of Unmount: the cleanup does not remove the listener
Unmount_listenerKept ==
    /\ mounted = "mounted"
    /\ mounted' = "unmounted"
    /\ last' = [op |-> "unmount", effects |-> << >>, emitted |-> << >>, updates |-> << >>,
                sortModel |-> << >>]
    /\ ops' = ops + 1
    /\ UNCHANGED <<columns, options, apiRef, stateRef, internalColumns, sortedColFieldsRef,
                   prevState, rafPending>>

\* the cleanup of the attachment effect (lines 196-198), which exists only when the
\* effect found the handle set
Unmount ==
    /\ mounted = "mounted"
    /\ mounted' = "unmounted"
    /\ apiRef' = [apiRef EXCEPT !.listening = FALSE]
    /\ last' = [op |-> "unmount", effects |-> << >>, emitted |-> << >>, updates |-> << >>,
                sortModel |-> << >>]
    /\ ops' = ops + 1
    /\ UNCHANGED <<columns, options, stateRef, internalColumns, sortedColFieldsRef,
                   prevState, rafPending>>

\* the handlers the host and React may run next, MaxOps of them after the first render
Next ==
    \/ \E withGetSortModel \in BOOLEAN : HostInitApi(withGetSortModel)
    \/ Mount
    \/ ops < MaxOps /\ \E cols \in ColumnLists : ColumnsChanged(cols, options)
    \/ ops < MaxOps /\ \E opts \in [checkboxSelection : BOOLEAN] \ {options} :
                           ColumnsChanged(columns, opts)
    \/ ops < MaxOps /\ \E col \in ColumnPatches : updateColumn(col)
    \/ ops < MaxOps /\ \E cols \in PatchLists : updateColumns(cols)
    \/ ops < MaxOps /\ \E sortModel \in SortModels : onSortedColumns(sortModel)
    \/ ops < MaxOps /\ \E sortModel \in SortModels : PostSortUnheard(sortModel)
    \/ Render
    \/ RafFrame
    \/ ops < MaxOps /\ Unmount

Spec == Init /\ [][Next]_vars

\* ------------------------------------------- sort models and column changes
\* a second specification, for runs of MaxSortOps sort notifications and column changes:
\* the host has set its handle before the first render, the caller's columns have
\* distinct field identifiers, and the host sorts by columns of the current list only
SortResetColumnLists == { <<ColA, ColB>>, <<ColC, ColA>> }

NamesOnlyColumns(sortModel, all) ==
    \A i \in 1..Len(sortModel) : findIndex(all, sortModel[i].colId) # 0

InitSortReset ==
    /\ Init
    /\ columns \in SortResetColumnLists
    /\ ~options.checkboxSelection
    /\ apiRef.current

NextSortReset ==
    \/ Mount
    \/ ops < MaxSortOps /\ \E cols \in SortResetColumnLists : ColumnsChanged(cols, options)
    \/ ops < MaxSortOps /\ \E sortModel \in SortModels :
                               /\ NamesOnlyColumns(sortModel, stateRef.all)
                               /\ onSortedColumns(sortModel)
    \/ Render
    \/ RafFrame

SpecSortReset == InitSortReset /\ [][NextSortReset]_vars

\* ================================================================ claims
IsPatchOp(op) == op \in {"updateColumn", "updateColumns", POST_SORT}

\* the sum of the widths of the first n columns
RECURSIVE SumWidths(_, _)
SumWidths(cols, n) == IF n = 0 THEN 0 ELSE SumWidths(cols, n - 1) + cols[n].width

MetaMatches(st) ==
    /\ Len(st.meta.positions) = Len(st.visible)
    /\ \A i \in 1..Len(st.visible) : st.meta.positions[i] = SumWidths(st.visible, i - 1)
    /\ st.meta.totalWidth = SumWidths(st.visible, Len(st.visible))

\* C1: in every committed state, whatever resets, patches and post-sort reactions led to
\* it, positions is as long as visible, positions[i] is the sum of the widths of the
\* visible columns before i, and totalWidth is the sum of all visible widths
C1_MetaMatchesVisible == MetaMatches(stateRef)

\* C1 witness: a patch has just changed the metadata of a state with two visible columns
C1_Witness ==
    /\ last.op = "updateColumn"
    /\ Len(stateRef.visible) = 2
    /\ stateRef.meta.positions[2] > 0
    /\ stateRef.meta # prevState.meta

\* the indices of the entries of all with a field identifier and not hidden
ShownIndices(all) ==
    { i \in 1..Len(all) : all[i].field # Null /\ all[i].field # Undefined /\ all[i].hide = FALSE }

\* the k-th smallest index of a set of indices
KthIndex(indices, k) == CHOOSE i \in indices : Cardinality({ j \in indices : j <= i }) = k

IsShownSubsequence(visible, all) ==
    /\ Len(visible) = Cardinality(ShownIndices(all))
    /\ \A k \in 1..Len(visible) : visible[k] = all[KthIndex(ShownIndices(all), k)]

\* C2: in every committed state visible is exactly the subsequence of all whose entries
\* have a field identifier and are not hidden, in the same order; a patch of the hidden
\* flag shows in visible in the same commit
C2_VisibleIsShownSubsequence == IsShownSubsequence(stateRef.visible, stateRef.all)

\* C2 witness: a patch has just cleared the hidden flag of a column, which is now visible,
\* beside a column that has no field identifier or is hidden
C2_Witness ==
    /\ last.op = "updateColumn"
    /\ "hide" \in DOMAIN last.updates[1]
    /\ last.updates[1].hide = FALSE
    /\ findIndex(stateRef.visible, last.updates[1].field) # 0
    /\ findIndex(prevState.visible, last.updates[1].field) = 0
    /\ Len(stateRef.visible) < Len(stateRef.all)

UniqueFields(all) ==
    \A i, j \in 1..Len(all) : ToKey(all[i].field) = ToKey(all[j].field) => i = j

LookupCovers(st) ==
    \A i \in 1..Len(st.all) :
        /\ ToKey(st.all[i].field) \in DOMAIN st.lookup
        /\ st.lookup[ToKey(st.all[i].field)] = st.all[i]

\* C3: in the committed state, and in the state the last render returned, every column
\* of all is the entry of the lookup map under its field identifier (the patched entry
\* after a patch), given unique field identifiers
C3_LookupCoversAll ==
    /\ UniqueFields(stateRef.all) => LookupCovers(stateRef)
    /\ UniqueFields(internalColumns.all) => LookupCovers(internalColumns)

\* C3 witness: a list of patches has just replaced an entry of a state with several
\* columns of distinct field identifiers
C3_Witness ==
    /\ last.op = "updateColumns"
    /\ Len(last.updates) = 2
    /\ Len(stateRef.all) >= 2
    /\ UniqueFields(stateRef.all)
    /\ findIndex(stateRef.all, last.updates[2].field) # 0
    /\ stateRef.all # prevState.all

\* the annotation a sort model puts on the column of each of its entries
SortAnnotated(st, sortModel) ==
    \A i \in 1..Len(sortModel) :
        LET key == ToKey(sortModel[i].colId)
            at == findIndex(st.all, sortModel[i].colId)
            priority == IF Len(sortModel) > 1 THEN <<i>> ELSE NoIndex
        IN  /\ key \in DOMAIN st.lookup
            /\ st.lookup[key].sortDirection = sortModel[i].sort
            /\ st.lookup[key].sortIndex = priority
            /\ at # 0 => /\ st.all[at].sortDirection = sortModel[i].sort
                         /\ st.all[at].sortIndex = priority

\* C4: after a post-sort reaction, the column of the single entry of a sort model of
\* length 1 has that entry's direction and no priority; the columns of a sort model of
\* length >= 2 have the priorities 1..length in the model's order, each with the direction
\* of its entry; also for a field that the previous sort model named
C4_SortModelAnnotates == last.op = POST_SORT => SortAnnotated(stateRef, last.sortModel)

\* C4 witness: a sort model of two entries has just been applied, and its first field was
\* sorted under the previous reaction too (it is cleared, then set)
C4_Witness ==
    /\ last.op = POST_SORT
    /\ Len(last.sortModel) = 2
    /\ Len(last.updates) = 3
    /\ last.updates[1].field = last.sortModel[1].colId
    /\ last.updates[1].sortDirection = Null
    /\ findIndex(stateRef.all, last.sortModel[1].colId) # 0
    /\ findIndex(stateRef.all, last.sortModel[2].colId) # 0

\* C5 (as claimed): once an empty sort model has been processed after a non-empty one, no
\* column of the committed state carries a sort direction or a sort priority
C5_NoSortAnnotationLeft ==
    (last.op = POST_SORT /\ last.sortModel = << >> /\ last.updates # << >>)
        => \A i \in 1..Len(stateRef.all) :
               /\ IsNullish(stateRef.all[i].sortDirection)
               /\ stateRef.all[i].sortIndex = NoIndex

\* a step in which a handler of the hook ran
HandlerStep == ops' # ops \/ (mounted = "rendered" /\ mounted' = "mounted")

\* the index in updates of the last patch of the entry at index i that gives key k (0: none)
LastGiving(all, updates, i, k) ==
    LET giving == { u \in 1..Len(updates) :
                      findIndex(all, updates[u].field) = i /\ k \in DOMAIN updates[u] }
    IN  IF giving = {} THEN 0 ELSE CHOOSE u \in giving : \A v \in giving : v <= u

PatchedIndices(all, updates) ==
    { findIndex(all, updates[u].field) : u \in 1..Len(updates) } \ {0}

PatchedKeys(updates) == { ToKey(updates[u].field) : u \in 1..Len(updates) }

PatchFrame(old, new, updates) ==
    /\ Len(new.all) = Len(old.all)
    /\ \A i \in 1..Len(old.all) :
          IF i \in PatchedIndices(old.all, updates)
          THEN /\ new.all[i].oid \notin SnapshotOids(old)
               /\ new.all[i].field = old.all[i].field
               /\ DOMAIN new.all[i] = DOMAIN old.all[i]
               /\ \A k \in DOMAIN new.all[i] \ {"oid"} :
                      LET u == LastGiving(old.all, updates, i, k)
                      IN  new.all[i][k] = IF u = 0 THEN old.all[i][k] ELSE updates[u][k]
          ELSE new.all[i] = old.all[i]
    /\ DOMAIN new.lookup = DOMAIN old.lookup \cup PatchedKeys(updates)
    /\ \A k \in DOMAIN old.lookup \ PatchedKeys(updates) : new.lookup[k] = old.lookup[k]
    /\ \A u \in 1..Len(updates) :
          LET at == findIndex(old.all, updates[u].field)
          IN  at # 0 => new.lookup[ToKey(updates[u].field)] = new.all[at]

\* C6: a patch by field identifier (updateColumn, each element of updateColumns, and the
\* patches of a post-sort reaction) changes only that column's entry in all and in the
\* lookup map: the entry becomes a new object, the shallow merge of the old entry and
\* the patch with the patch's fields winning, at the same index; the length and order of
\* all are unchanged; every other entry of all and of the lookup map is the object it was
C6_PatchChangesOnlyItsEntry ==
    [][(HandlerStep /\ IsPatchOp(last'.op)) => PatchFrame(stateRef, stateRef', last'.updates)]_vars

\* C6 witness: updateColumn has just hidden a column that was visible, in a state with
\* another column, which it left alone
C6_Witness ==
    /\ last.op = "updateColumn"
    /\ "hide" \in DOMAIN last.updates[1]
    /\ LET at == findIndex(stateRef.all, last.updates[1].field)
       IN  /\ at # 0
           /\ stateRef.all[at].hide
           /\ findIndex(prevState.visible, last.updates[1].field) # 0
           /\ \E j \in 1..Len(stateRef.all) : j # at /\ stateRef.all[j] = prevState.all[j]

Emits(l) == \E i \in 1..Len(l.effects) : l.effects[i] = COLUMNS_UPDATED

\* C7 (amended): a reset (on mount, and whenever the column list or the options change)
\* emits "columns updated" with all of the new state exactly when the host handle is set
\* at that time; updateColumn, updateColumns and a post-sort reaction never emit it
C7_EmitsOnResetWithHandle ==
    [][HandlerStep =>
         /\ last'.op \in {"mount", "reset"} =>
               IF apiRef.current THEN Emits(last') /\ last'.emitted = stateRef'.all
               ELSE ~Emits(last')
         /\ IsPatchOp(last'.op) => ~Emits(last')]_vars

\* C7 witness: the column list has just changed and the event carried the new columns
C7_Witness ==
    /\ last.op = "reset"
    /\ ops >= 1
    /\ Emits(last)
    /\ last.emitted = stateRef.all
    /\ Len(stateRef.all) >= 2

\* C7 (as claimed): every reset made because the column list or the options changed emits
\* "columns updated" with all of the new state, and no patch or post-sort reaction does
C7_EmitsOnEveryReset ==
    /\ last.op = "reset" => Emits(last) /\ last.emitted = stateRef.all
    /\ IsPatchOp(last.op) => ~Emits(last)

\* C8: right after a patch the accessors return the newly committed snapshot, derived
\* from the snapshot committed before it and not from the last render: every field the
\* patch gave is read back through getColumnFromField, and every entry the patch did
\* not touch is the entry of the snapshot committed before it, so an earlier patch
\* that no render has shown yet is not lost
C8_AccessorsReadCommittedState ==
    (IsPatchOp(last.op) /\ last.updates # << >>) =>
        /\ \A u \in 1..Len(last.updates) : \A k \in DOMAIN last.updates[u] :
              (\A v \in (u + 1)..Len(last.updates) :
                   last.updates[v].field = last.updates[u].field => k \notin DOMAIN last.updates[v])
                  => getColumnFromField(last.updates[u].field)[k] = last.updates[u][k]
        /\ Len(getAllColumns) = Len(prevState.all)
        /\ \A i \in 1..Len(prevState.all) :
              i \notin PatchedIndices(prevState.all, last.updates)
                  => getAllColumns[i] = prevState.all[i]
        /\ \A k \in DOMAIN prevState.lookup \ PatchedKeys(last.updates) :
              getColumnFromField(k) = prevState.lookup[k]
        /\ IsShownSubsequence(getVisibleColumns, getAllColumns)
        /\ getColumnsMeta = toMeta(getVisibleColumns)

\* C8 witness: two patches back to back with no render in between: column "a" was hidden
\* by the first, the last render still shows it, and the second patch has just made
\* column "b" visible; the accessors show both
C8_Witness ==
    /\ last.op = "updateColumn"
    /\ last.updates[1].field = "b"
    /\ getColumnIndex("b") # 0
    /\ findIndex(getAllColumns, "a") # 0
    /\ getColumnFromField("a").hide
    /\ getColumnIndex("a") = 0
    /\ findIndex(internalColumns.visible, "a") # 0
    /\ findIndex(internalColumns.visible, "b") = 0

\* C9 (as claimed): with checkbox selection enabled, all is the caller's columns behind
\* exactly one synthetic column at index 0, whose reserved field identifier no other
\* column of all has; with the option disabled all has the caller's columns only
C9_CheckboxColumnNeverCollides ==
    IF options.checkboxSelection
    THEN /\ Len(stateRef.all) = Len(columns) + 1
         /\ stateRef.all[1].field = CheckboxField
         /\ \A i \in 2..Len(stateRef.all) :
                /\ stateRef.all[i].field = columns[i - 1].field
                /\ stateRef.all[i].field # CheckboxField
    ELSE /\ Len(stateRef.all) = Len(columns)
         /\ \A i \in 1..Len(stateRef.all) : stateRef.all[i].field = columns[i].field

\* the caller's columns all have a field identifier and none is hidden
AllShown(cols) ==
    \A i \in 1..Len(cols) :
        /\ ~IsNullish(cols[i].field)
        /\ "hide" \in DOMAIN cols[i] => ~cols[i].hide

\* C10 (amended): the state a reset produces from N columns, none hidden and all with a
\* field identifier, has N visible columns and N positions when checkbox selection is
\* disabled, and N + 1 of each when it is enabled (the synthetic column is visible)
C10_VisibleCountAfterReset ==
    (last.op \in {"render", "mount", "reset"} /\ AllShown(columns)) =>
        LET n == Len(columns) + (IF options.checkboxSelection THEN 1 ELSE 0)
        IN  Len(stateRef.visible) = n /\ Len(stateRef.meta.positions) = n

\* C10 witness: a reset of two shown columns with checkbox selection enabled
C10_Witness ==
    /\ last.op = "reset"
    /\ Len(columns) = 2
    /\ AllShown(columns)
    /\ options.checkboxSelection
    /\ Len(stateRef.visible) = 3
    /\ Len(stateRef.meta.positions) = 3

\* C10 (as claimed): such a state has N visible columns and N positions
C10_VisibleCountIsN ==
    (last.op \in {"render", "mount", "reset"} /\ AllShown(columns)) =>
        Len(stateRef.visible) = Len(columns) /\ Len(stateRef.meta.positions) = Len(columns)

\* the field identifiers the accessors are asked about: those of the columns, the
\* reserved one, one no column has, and null
ProbeFields == {"a", "b", "c", "zz", CheckboxField, Null}

IsShownEntry(c) == c.field # Null /\ c.field # Undefined /\ c.hide = FALSE

\* C11: getColumnIndex(field) is the position in visible of the first shown column with
\* that field (as a 1-based index), and -1 (here 0) when no column has the field or the
\* column is hidden; getColumnPosition(field) is the sum of the widths of the visible
\* columns before it, and undefined, with no error, when the index lookup fails
C11_IndexAndPosition ==
    \A f \in ProbeFields :
        LET shown == { i \in ShownIndices(stateRef.all) : stateRef.all[i].field = f }
            first == CHOOSE i \in shown : \A j \in shown : i <= j
            before == SelectSeq(SubSeq(stateRef.all, 1, first - 1), IsShownEntry)
        IN  IF shown = {}
            THEN getColumnIndex(f) = 0 /\ getColumnPosition(f) = Undefined
            ELSE /\ getColumnIndex(f) = Len(before) + 1
                 /\ getVisibleColumns[getColumnIndex(f)] = stateRef.all[first]
                 /\ getColumnPosition(f) = SumWidths(before, Len(before))

\* C11 witness: with the column API attached to the host handle, a column is second among
\* the visible ones, behind a column of positive width, while another column of all is
\* hidden and has no index and no position
C11_Witness ==
    \E f, g \in ProbeFields :
        /\ apiRef.colApi
        /\ getColumnIndex(f) = 2
        /\ getColumnPosition(f) > 0
        /\ findIndex(stateRef.all, g) # 0
        /\ stateRef.all[findIndex(stateRef.all, g)].hide
        /\ getColumnIndex(g) = 0
        /\ getColumnPosition(g) = Undefined

\* the columns of all that come from the caller's list: all behind the synthetic column
CallerColumns(st, opts) == IF opts.checkboxSelection THEN Tail(st.all) ELSE st.all

\* every column with a sort direction has a sort priority, and a priority the caller
\* supplied is kept
PrioritiesAssigned(st, cols, opts) ==
    /\ \A i \in 1..Len(st.all) :
          ~IsNullish(st.all[i].sortDirection) => st.all[i].sortIndex # NoIndex
    /\ \A i \in 1..Len(cols) :
          "sortIndex" \in DOMAIN cols[i] => CallerColumns(st, opts)[i].sortIndex = cols[i].sortIndex

\* C12 (as claimed): a reset made while no sort model is retrievable from the host leaves
\* every column that carries a sort direction with a sort priority, and a column that
\* supplied its own priority keeps it
C12_HydrationAssignsPriorities ==
    [][(HandlerStep /\ last'.op \in {"mount", "reset"} /\ ~(apiRef.current /\ apiRef.getSortModel))
          => PrioritiesAssigned(stateRef', columns', options')]_vars

\* the definition a column of all was hydrated from: the fixed one of the synthetic
\* column, or the defaults under the caller's fields
DefinitionOf(cols, opts, j) ==
    IF opts.checkboxSelection
    THEN IF j = 1 THEN checkboxSelectionColDef ELSE Spread(getColDef, cols[j - 1])
    ELSE Spread(getColDef, cols[j])

\* the columns a sort model matches: for each entry the first column with its field
MatchedIndices(all, sortModel) ==
    { findIndex(all, sortModel[i].colId) : i \in 1..Len(sortModel) } \ {0}

\* each matched column has the direction of its entry, and the entry's rank as priority
\* only when the model has more than one entry
MatchedAnnotated(st, sortModel) ==
    \A i \in 1..Len(sortModel) :
        LET at == findIndex(st.all, sortModel[i].colId)
        IN  (at # 0 /\ \A k \in (i + 1)..Len(sortModel) : sortModel[k].colId # sortModel[i].colId)
                => /\ st.all[at].sortDirection = sortModel[i].sort
                   /\ st.all[at].sortIndex = IF Len(sortModel) > 1 THEN <<i>> ELSE NoIndex

\* a column no entry matches has what its definition gave it (a definition that carries a
\* direction and no priority says nothing about the priority)
UnmatchedAsDefined(st, cols, opts, sortModel) ==
    \A j \in (1..Len(st.all)) \ MatchedIndices(st.all, sortModel) :
        LET def == DefinitionOf(cols, opts, j)
        IN  \A key \in (DOMAIN def) \ {"oid"} :
                (key = "sortIndex" /\ def.sortIndex = NoIndex /\ ~IsNullish(def.sortDirection))
                    \/ st.all[j][key] = def[key]

\* a reset that finds the host handle set and a sort-model accessor on it
ResetWithSortModel ==
    HandlerStep /\ last'.op \in {"mount", "reset"} /\ apiRef.current /\ apiRef.getSortModel

CountOf(effects, e) == Cardinality({ i \in 1..Len(effects) : effects[i] = e })

\* C14: a post-sort notification hands all its patches (one clear-patch per field sorted
\* under the previous reaction, one set-patch per entry of the new model) to a single
\* state update: one commit when there is a patch, none and an unchanged state when
\* there is none; in both cases it then requests one re-render, as its last effect
C14_OneCommitThenOneRender ==
    [][(HandlerStep /\ last'.op = POST_SORT) =>
          LET patches == Len(sortedColFieldsRef) + Len(last'.sortModel)
          IN  /\ Len(last'.updates) = patches
              /\ CountOf(last'.effects, "setInternalColumns") = (IF patches > 0 THEN 1 ELSE 0)
              /\ patches = 0 => stateRef' = stateRef
              /\ CountOf(last'.effects, "rafUpdate") = 1
              /\ last'.effects[Len(last'.effects)] = "rafUpdate"
              /\ rafPending']_vars

\* C14 witness: a notification has just cleared one field and set two in one commit,
\* changed the state, and a re-render is pending
C14_Witness ==
    /\ last.op = POST_SORT
    /\ Len(last.updates) = 3
    /\ last.effects = <<"setInternalColumns", "rafUpdate">>
    /\ stateRef.all # prevState.all
    /\ rafPending

\* no update of the list names a field of a column of all
AllUnknown(all, updates) ==
    updates # << >> /\ \A u \in 1..Len(updates) : findIndex(all, updates[u].field) = 0

\* C15: updateColumn or updateColumns with patches whose field identifiers match no column
\* commits (the state is set, nothing fails) and the new state's all, visible and
\* metadata hold the entries they held before, in the same order
C15_UnknownFieldLeavesColumns ==
    [][(HandlerStep /\ last'.op \in {"updateColumn", "updateColumns"}
           /\ AllUnknown(stateRef.all, last'.updates)) =>
          /\ CountOf(last'.effects, "setInternalColumns") = 1
          /\ stateRef'.all = stateRef.all
          /\ stateRef'.visible = stateRef.visible
          /\ stateRef'.meta = stateRef.meta
          /\ stateRef'.hasColumns = stateRef.hasColumns
          /\ stateRef'.hasVisibleColumns = stateRef.hasVisibleColumns]_vars

\* C15 witness: updateColumn has just been given a patch of a field no column has, in a
\* state of two columns, one of them visible: the commit was made and the columns are
\* the ones of before
C15_Witness ==
    /\ last.op = "updateColumn"
    /\ last.updates[1].field = "zz"
    /\ last.effects = <<"setInternalColumns">>
    /\ Len(stateRef.all) = 2
    /\ Len(stateRef.visible) = 1
    /\ findIndex(stateRef.all, "zz") = 0
    /\ stateRef.all = prevState.all

\* a sort direction, null and undefined both read as none
DirectionOf(c) == IF IsNullish(c.sortDirection) THEN Null ELSE c.sortDirection

\* C16 (as claimed): when the column list is reset right after a post-sort reaction to a
\* sort model M, with the same columns and options, and the reset re-applies M through
\* the host's sort-model accessor, every column has after the reset the sort direction
\* and the sort priority it had after the reaction
C16_ResetKeepsSortAnnotations ==
    [][(/\ HandlerStep
        /\ last.op = POST_SORT /\ last'.op = "reset"
        /\ columns' = columns /\ options' = options
        /\ apiRef.current /\ apiRef.getSortModel /\ apiRef.sortModel = last.sortModel) =>
          /\ Len(stateRef'.all) = Len(stateRef.all)
          /\ \A i \in 1..Len(stateRef.all) :
                /\ DirectionOf(stateRef'.all[i]) = DirectionOf(stateRef.all[i])
                /\ stateRef'.all[i].sortIndex = stateRef.all[i].sortIndex]_vars

\* C17 (as claimed): across column changes and post-sort notifications, with distinct
\* field identifiers and sort models that name only columns of the current list, the
\* keys of the lookup map are exactly the field identifiers of all
C17_LookupKeysAreFieldsOfAll ==
    DOMAIN stateRef.lookup = { ToKey(stateRef.all[i].field) : i \in 1..Len(stateRef.all) }

\* every update of the list names a field of a column of all
AllKnown(all, updates) ==
    \A u \in 1..Len(updates) : findIndex(all, updates[u].field) # 0

\* C18 (as claimed): after updateColumn or updateColumns with patches of existing columns
\* (of distinct field identifiers), the snapshot that was committed before the call still holds in all and in the lookup
\* map exactly the entries it held before the call, and so still agrees with its own
\* visible collection
C18_PatchLeavesOldSnapshot ==
    [][(HandlerStep /\ last'.op \in {"updateColumn", "updateColumns"}
           /\ UniqueFields(stateRef.all) /\ AllKnown(stateRef.all, last'.updates)) =>
          /\ prevState'.all = stateRef.all
          /\ prevState'.lookup = stateRef.lookup
          /\ IsShownSubsequence(prevState'.visible, prevState'.all)]_vars

\* the priorities the caller supplied are pairwise distinct
SuppliedPrioritiesDistinct(cols) ==
    \A i, j \in 1..Len(cols) :
        ("sortIndex" \in DOMAIN cols[i] /\ "sortIndex" \in DOMAIN cols[j]
            /\ cols[i].sortIndex # NoIndex /\ cols[i].sortIndex = cols[j].sortIndex) => i = j

\* C19 (as claimed): a reset made while no sort model is retrievable from the host, from
\* columns whose supplied priorities are pairwise distinct, gives no two columns that
\* carry a sort direction the same sort priority
C19_PrioritiesPairwiseDistinct ==
    [][(HandlerStep /\ last'.op \in {"mount", "reset"} /\ ~(apiRef.current /\ apiRef.getSortModel)
           /\ SuppliedPrioritiesDistinct(columns')) =>
          \A i, j \in 1..Len(stateRef'.all) :
              (/\ ~IsNullish(stateRef'.all[i].sortDirection)
               /\ ~IsNullish(stateRef'.all[j].sortDirection)
               /\ stateRef'.all[i].sortIndex # NoIndex
               /\ stateRef'.all[i].sortIndex = stateRef'.all[j].sortIndex) => i = j]_vars

\* C20: onSortedColumns is subscribed exactly while the column API is attached and the
\* cleanup has not run; a post-sort notification that finds it subscribed is reacted to
\* (the carried sorted fields become those of its model and a re-render is requested),
\* and one that does not (before the attachment, after the cleanup) changes neither the
\* column state nor the carried sorted fields
C20_SubscribedUntilCleanup ==
    [][/\ apiRef'.listening <=> (apiRef'.colApi /\ mounted' = "mounted")
       /\ (HandlerStep /\ last'.op \in {POST_SORT, "unheard"}) =>
             IF apiRef.listening
             THEN /\ last'.op = POST_SORT
                  /\ sortedColFieldsRef' =
                         [ i \in 1..Len(last'.sortModel) |-> last'.sortModel[i].colId ]
                  /\ SortAnnotated(stateRef', last'.sortModel)
                  /\ rafPending'
             ELSE /\ stateRef' = stateRef
                  /\ internalColumns' = internalColumns
                  /\ sortedColFieldsRef' = sortedColFieldsRef
                  /\ rafPending' = rafPending]_vars

\* C20 witness: the column API was attached, the cleanup has run, and a notification
\* that would otherwise sort an existing column has just arrived and changed nothing
C20_Witness ==
    /\ mounted = "unmounted"
    /\ apiRef.colApi /\ ~apiRef.listening
    /\ last.op = "unheard"
    /\ last.sortModel # << >>
    /\ LET at == findIndex(stateRef.all, last.sortModel[1].colId)
       IN  at # 0 /\ stateRef.all[at].sortDirection # last.sortModel[1].sort

====
